---- MODULE Spec2Model ----
(***************************************************************************)
(* OscConnection (src/main/OscConnection.ts, the OSCQuery version of the   *)
(* class, file lines 156-451): the parameter store, the bulk               *)
(* reconciliation loops, the connect attempts with their sockets and       *)
(* discovery servers, the retry timer and the outbound dispatcher.         *)
(*                                                                         *)
(* Every callback of the event loop is one action: the code between two    *)
(* awaits runs without interleaving.                                       *)
(***************************************************************************)
EXTENDS Integers, Sequences, FiniteSets, TLC

\* ---------------------------------------------------------------- bounds
\* delayRetry calls in one run (timer handles 1..MaxRetry; connect attempts
\* 1..MaxRetry + 1: attempt 1 is the constructor's, attempt h + 1 timer h's)
MaxRetry == 2
\* updateBulk invocations in one run (attempt tokens 1..MaxBulk)
MaxBulk == 3
\* updates a cell receives between two delta clears
MaxHist == 3
\* cap of recentlyRcvdOscCmds
MaxRecv == 3

\* ---------------------------------------------------------------- values
Undefined == [type |-> "undefined", v |-> 0]
Num(i) == [type |-> "number", v |-> i]
Str == [type |-> "string", v |-> 0]
Numbers == {Num(0), Num(1)}
\* what an OSC argument or a bulk node can carry
RawValues == Numbers \cup {Str, Undefined}

Abs(x) == IF x < 0 THEN -x ELSE x

\* typeof x == 'number'
IsNumber(x) == x.type = "number"

\* ----------------------------------------------------------------- paths
\* An address is the sequence of its segments: '/avatar/change' is
\* <<"avatar", "change">>, '' is <<>>.
ParamPrefix == <<"avatar", "parameters">>
AvatarChange == <<"avatar", "change">>
Names == {<<"a">>, <<"b">>}
Paths == {<<>>, AvatarChange, <<"other", "a">>} \cup {ParamPrefix \o n : n \in Names}
NoParam == <<"?undefined">>

StartsWith(path, prefix) ==
    /\ Len(path) >= Len(prefix)
    /\ SubSeq(path, 1, Len(prefix)) = prefix

parseParamFromPath(path) ==
    IF StartsWith(path, ParamPrefix)
    THEN SubSeq(path, Len(ParamPrefix) + 1, Len(path))
    ELSE NoParam

VARIABLES
    entries,               \* _entries: name -> OscValue, for the names that have a cell
    socketopen,            \* socketopen
    oscSocket,             \* oscSocket: id of the held socket, 0 for undefined
    oscQuery,              \* oscQuery: id of the held discovery server, 0 for undefined
    retryTimeout,          \* retryTimeout: the last timer handle, 0 for undefined
    timers,                \* the timer handles that are scheduled and not yet fired
    callpc,                \* where each openSocket call stands
    sock,                  \* the state of the socket each call created (its id is the call's)
    receivedOne,           \* the receivedOne flag in each call's closure
    qserv,                 \* the state of the discovery server each call created
    updateBulkAttempt,     \* updateBulkAttempt: the current token, 0 for undefined
    waitingForBulk,        \* waitingForBulk
    loops,                 \* where each updateBulk invocation stands
    recentlyRcvdOscCmds,   \* recentlyRcvdOscCmds
    lastReceiveTime,       \* lastReceiveTime
    lastPacket,            \* lastPacket
    hist,                  \* history: per cell, the values received since its last delta clear
    live,                  \* history: the names whose cell received a live update
    dropped,               \* history: the names whose cell had a delta > 0 at the last clear
    added,                 \* history: per name, the 'add' events emitted since the last 'clear'
    last                   \* history: the last callback that ran, what it emitted and sent

vars == <<entries, socketopen, oscSocket, oscQuery, retryTimeout, timers, callpc, sock,
          receivedOne, qserv, updateBulkAttempt, waitingForBulk, loops,
          recentlyRcvdOscCmds, lastReceiveTime, lastPacket, hist, live, dropped, added,
          last>>

Calls == 1..(MaxRetry + 1)
Handles == 1..MaxRetry
Tokens == 1..MaxBulk
PeerAddrs == {"vrchat1", "vrchat2"}
\* the readings of Date.now() in one run
Times == {1}
NoPeer == "none"

\* ------------------------------------------------------------- OscValue
\* new OscValue(): value undefined, delta 0
NewOscValue == [value |-> Undefined, delta |-> 0]

clearDelta(cell) == [cell EXCEPT !.delta = 0]

\* receivedUpdate without Math.abs
receivedUpdateSigned(cell, newValue) ==
    [value |-> newValue,
     delta |-> IF IsNumber(cell.value) /\ IsNumber(newValue)
               THEN cell.delta + (newValue.v - cell.value.v)
               ELSE cell.delta]

\* the cell after receivedUpdate(newValue)
receivedUpdate(cell, newValue) ==
    [value |-> newValue,
     delta |-> IF IsNumber(cell.value) /\ IsNumber(newValue)
               THEN cell.delta + Abs(newValue.v - cell.value.v)
               ELSE cell.delta]

\* ---------------------------------------------------------------- events
NoKey == <<>>
ClearEvent == [ev |-> "clear", key |-> NoKey, old |-> Undefined, new |-> Undefined]
AddEvent(param, cell) == [ev |-> "add", key |-> param, old |-> Undefined, new |-> cell.value]
ChangeEvent(param, old, new) == [ev |-> "change", key |-> param, old |-> old, new |-> new]

\* ----------------------------------------------------------- the store
\* A store is the map with its history and the events emitted so far by
\* the running callback.
EmptyMap == [n \in {} |-> NewOscValue]
Store(e, h, l, ev) == [e |-> e, h |-> h, l |-> l, ev |-> ev]
Put(f, k, x) == [n \in DOMAIN f \cup {k} |-> IF n = k THEN x ELSE f[n]]

\* clearValues without _entries.clear()
clearValuesEmitOnly(st) == Store(st.e, st.h, st.l, Append(st.ev, ClearEvent))

clearValues(st) == Store(EmptyMap, EmptyMap, {}, Append(st.ev, ClearEvent))

\* receivedParamValue without its rawValue === undefined test
receivedParamValueStoresUndefined(st, param, rawValue, onlyUseIfNew) ==
    IF param = NoParam THEN st
    ELSE LET isNew == param \notin DOMAIN st.e
             value == IF isNew THEN NewOscValue ELSE st.e[param]
         IN IF ~isNew /\ onlyUseIfNew THEN st
            ELSE LET updated == receivedUpdate(value, rawValue)
                     changed == Append(st.ev, ChangeEvent(param, value.value, rawValue))
                 IN Store(Put(st.e, param, updated),
                          Put(st.h, param,
                              IF isNew THEN <<rawValue>> ELSE Append(st.h[param], rawValue)),
                          IF onlyUseIfNew THEN st.l ELSE st.l \cup {param},
                          IF isNew THEN Append(changed, AddEvent(param, updated))
                          ELSE changed)

\* receivedParamValue announcing every update with 'add'
receivedParamValueAlwaysAdds(st, param, rawValue, onlyUseIfNew) ==
    IF param = NoParam THEN st
    ELSE IF rawValue = Undefined THEN st
    ELSE LET isNew == param \notin DOMAIN st.e
             value == IF isNew THEN NewOscValue ELSE st.e[param]
         IN IF ~isNew /\ onlyUseIfNew THEN st
            ELSE LET updated == receivedUpdate(value, rawValue)
                     changed == Append(st.ev, ChangeEvent(param, value.value, rawValue))
                 IN Store(Put(st.e, param, updated),
                          Put(st.h, param,
                              IF isNew THEN <<rawValue>> ELSE Append(st.h[param], rawValue)),
                          IF onlyUseIfNew THEN st.l ELSE st.l \cup {param},
                          Append(changed, AddEvent(param, updated)))

\* receivedParamValue without its onlyUseIfNew branch
receivedParamValueOverwrite(st, param, rawValue, onlyUseIfNew) ==
    IF param = NoParam THEN st
    ELSE IF rawValue = Undefined THEN st
    ELSE LET isNew == param \notin DOMAIN st.e
             value == IF isNew THEN NewOscValue ELSE st.e[param]
             updated == receivedUpdate(value, rawValue)
             changed == Append(st.ev, ChangeEvent(param, value.value, rawValue))
         IN Store(Put(st.e, param, updated),
                  Put(st.h, param,
                      IF isNew THEN <<rawValue>> ELSE Append(st.h[param], rawValue)),
                  IF onlyUseIfNew THEN st.l ELSE st.l \cup {param},
                  IF isNew THEN Append(changed, AddEvent(param, updated)) ELSE changed)

receivedParamValue(st, param, rawValue, onlyUseIfNew) ==
    IF param = NoParam THEN st
    ELSE IF rawValue = Undefined THEN st
    ELSE LET isNew == param \notin DOMAIN st.e
             value == IF isNew THEN NewOscValue ELSE st.e[param]
         IN IF ~isNew /\ onlyUseIfNew THEN st
            ELSE LET updated == receivedUpdate(value, rawValue)
                     changed == Append(st.ev, ChangeEvent(param, value.value, rawValue))
                 IN Store(Put(st.e, param, updated),
                          Put(st.h, param,
                              IF isNew THEN <<rawValue>> ELSE Append(st.h[param], rawValue)),
                          IF onlyUseIfNew THEN st.l ELSE st.l \cup {param},
                          IF isNew THEN Append(changed, AddEvent(param, updated))
                          ELSE changed)

\* the loop of _updateBulk over the fetched nodes
RECURSIVE mergeNodes(_, _)
mergeNodes(st, nodes) ==
    IF nodes = <<>> THEN st
    ELSE mergeNodes(receivedParamValue(st, parseParamFromPath(Head(nodes).full_path),
                                       Head(nodes).value, TRUE),
                    Tail(nodes))

\* -------------------------------------------------------- history record
\* What the last callback was given and what it put out.
\*   op: the callback; id: the socket, call, timer or token it belongs to;
\*   ev: the events it emitted, in order; sent: the datagrams it sent;
\*   from, kind, first: for a message, whether its sender is trusted, the class
\*     of its address and whether receivedOne was false when it came;
\*   path, arg: for a message that was accepted, its address and the value
\*     of its first argument;
\*   carried: for a bulk result, the <<name, value>> pairs of its nodes that
\*     name a parameter and carry a value;
\*   peer: for send, what getOscAddress() returned.
Last(op, id, ev) ==
    [op |-> op, id |-> id, ev |-> ev, sent |-> <<>>, from |-> "", kind |-> "",
     first |-> FALSE, path |-> <<>>, arg |-> Undefined, carried |-> {}, peer |-> NoPeer]
Sent(sendAddr, msgs) == [Last("send", 0, <<>>) EXCEPT !.sent = msgs, !.peer = sendAddr]
Kind(path) ==
    IF path = <<>> THEN "noPath"
    ELSE IF path = AvatarChange THEN "avatarChange"
    ELSE IF parseParamFromPath(path) # NoParam THEN "param" ELSE "other"
Received(i, from, path, ev) ==
    [Last("message", i, ev) EXCEPT !.from = from, !.kind = Kind(path),
                                   !.first = ~receivedOne[i]]
CurrentStore == Store(entries, hist, live, <<>>)

Cleared(ev) == \E k \in DOMAIN ev : ev[k].ev = "clear"

\* the 'add' events for name n that ev holds after its last 'clear'
AddsSinceClear(ev, n) ==
    Cardinality({k \in DOMAIN ev :
                    /\ ev[k].ev = "add" /\ ev[k].key = n
                    /\ \A m \in DOMAIN ev : m > k => ev[m].ev # "clear"})

SetStore(st) ==
    /\ entries' = st.e
    /\ hist' = st.h
    /\ live' = st.l
    /\ dropped' = IF Cleared(st.ev) THEN {n \in DOMAIN entries : entries[n].delta > 0}
                  ELSE dropped
    /\ added' = [n \in Names |->
                    (IF Cleared(st.ev) THEN 0 ELSE added[n]) + AddsSinceClear(st.ev, n)]

storeVars == <<entries, hist, live, dropped, added>>
bulkVars == <<updateBulkAttempt, waitingForBulk, loops>>
connVars == <<socketopen, oscSocket, oscQuery, retryTimeout, timers, callpc, sock,
              receivedOne, qserv>>
recvVars == <<recentlyRcvdOscCmds, lastReceiveTime, lastPacket>>

\* ------------------------------------------------------------------ Init
\* The state when the constructor returns: openSocket() has run up to its
\* first await (portfinder.getPortPromise), nothing else has happened.
Init ==
    /\ entries = EmptyMap
    /\ hist = EmptyMap
    /\ live = {}
    /\ dropped = {}
    /\ added = [n \in Names |-> 0]
    /\ socketopen = FALSE
    /\ oscSocket = 0
    /\ oscQuery = 0
    /\ retryTimeout = 0
    /\ timers = {}
    /\ callpc = [i \in Calls |-> IF i = 1 THEN "port" ELSE "idle"]
    /\ sock = [i \in Calls |-> "none"]
    /\ receivedOne = [i \in Calls |-> FALSE]
    /\ qserv = [i \in Calls |-> "none"]
    /\ updateBulkAttempt = 0
    /\ waitingForBulk = FALSE
    /\ loops = [j \in Tokens |-> "idle"]
    /\ recentlyRcvdOscCmds = 0
    /\ lastReceiveTime = 0
    /\ lastPacket = 0
    /\ last = Last("constructor", 0, <<>>)

\* ------------------------------------------------- openSocket, its awaits
\* getPortPromise resolves: the call creates the discovery server, stores it
\* in oscQuery and awaits its start().
PortResolved(i) ==
    /\ callpc[i] = "port"
    /\ callpc' = [callpc EXCEPT ![i] = "start"]
    /\ oscQuery' = i
    /\ qserv' = [qserv EXCEPT ![i] = "starting"]
    /\ last' = Last("portResolved", i, <<>>)
    /\ UNCHANGED <<socketopen, oscSocket, retryTimeout, timers, sock, receivedOne>>
    /\ UNCHANGED <<storeVars, bulkVars, recvVars>>

\* what openSocket's catch block does with the error: this.error(e) logs it
openSocketCatch(i) ==
    /\ callpc' = [callpc EXCEPT ![i] = "done"]
    /\ UNCHANGED <<socketopen, oscSocket, retryTimeout, timers, sock, receivedOne>>
    /\ UNCHANGED <<storeVars, bulkVars, recvVars>>

\* getPortPromise rejects: openSocketUnsafe throws into openSocket's catch.
PortRejected(i) ==
    /\ callpc[i] = "port"
    /\ openSocketCatch(i)
    /\ last' = Last("portRejected", i, <<>>)
    /\ UNCHANGED <<oscQuery, qserv>>

\* oscQuery.start() resolves: the call creates the socket with a fresh
\* receivedOne, stores it in oscSocket, registers the handlers and opens it.
StartResolved(i) ==
    /\ callpc[i] = "start"
    /\ callpc' = [callpc EXCEPT ![i] = "done"]
    /\ qserv' = [qserv EXCEPT ![i] = IF @ = "starting" THEN "started" ELSE @]
    /\ receivedOne' = [receivedOne EXCEPT ![i] = FALSE]
    /\ oscSocket' = i
    /\ sock' = [sock EXCEPT ![i] = "opening"]
    /\ last' = Last("startResolved", i, <<>>)
    /\ UNCHANGED <<socketopen, oscQuery, retryTimeout, timers>>
    /\ UNCHANGED <<storeVars, bulkVars, recvVars>>

\* oscQuery.start() rejects.
StartRejected(i) ==
    /\ callpc[i] = "start"
    /\ openSocketCatch(i)
    /\ qserv' = [qserv EXCEPT ![i] = IF @ = "starting" THEN "failed" ELSE @]
    /\ last' = Last("startRejected", i, <<>>)
    /\ UNCHANGED oscQuery

\* the socket's 'ready' handler
SocketReady(i) ==
    /\ sock[i] = "opening"
    /\ sock' = [sock EXCEPT ![i] = "listening"]
    /\ socketopen' = TRUE
    /\ recentlyRcvdOscCmds' = 0
    /\ lastPacket' = 0
    /\ last' = Last("ready", i, <<>>)
    /\ UNCHANGED <<oscSocket, oscQuery, retryTimeout, timers, callpc, receivedOne, qserv>>
    /\ UNCHANGED <<storeVars, bulkVars, lastReceiveTime>>

\* an 'error' handler that treats the error as fatal to the connection
SocketErrorFatal(i) ==
    /\ sock[i] \in {"opening", "listening"}
    /\ sock' = [sock EXCEPT ![i] = IF @ = "opening" THEN "failed" ELSE @]
    /\ socketopen' = FALSE
    /\ last' = Last(IF sock[i] = "opening" THEN "bindError" ELSE "error", i, <<>>)
    /\ UNCHANGED <<oscSocket, oscQuery, retryTimeout, timers, callpc, receivedOne, qserv>>
    /\ UNCHANGED <<storeVars, bulkVars, recvVars>>

\* the socket's 'error' handler: it has an empty body. A socket that was
\* still opening could not bind and never becomes ready.
SocketError(i) ==
    /\ sock[i] \in {"opening", "listening"}
    /\ sock' = [sock EXCEPT ![i] = IF @ = "opening" THEN "failed" ELSE @]
    /\ last' = Last(IF sock[i] = "opening" THEN "bindError" ELSE "error", i, <<>>)
    /\ UNCHANGED <<socketopen, oscSocket, oscQuery, retryTimeout, timers, callpc,
                   receivedOne, qserv>>
    /\ UNCHANGED <<storeVars, bulkVars, recvVars>>

\* ------------------------------------------------------------ delayRetry
\* delayRetry without its clearTimeout
clearTimeoutForgotten(pending, h) == pending

\* the pending timers after clearTimeout(h)
clearTimeout(pending, h) == pending \ {h}

\* delayRetry without its updateBulkAttempt = undefined
delayRetryKeepsToken ==
    /\ retryTimeout < MaxRetry
    /\ socketopen' = FALSE
    /\ waitingForBulk' = FALSE
    /\ LET st == clearValues(CurrentStore)
       IN /\ SetStore(st)
          /\ last' = Last("delayRetry", retryTimeout + 1, st.ev)
    /\ sock' = IF oscSocket # 0 THEN [sock EXCEPT ![oscSocket] = "closed"] ELSE sock
    /\ oscSocket' = 0
    /\ qserv' = IF oscQuery # 0 THEN [qserv EXCEPT ![oscQuery] = "stopped"] ELSE qserv
    /\ oscQuery' = 0
    /\ timers' = clearTimeout(timers, retryTimeout) \cup {retryTimeout + 1}
    /\ retryTimeout' = retryTimeout + 1
    /\ UNCHANGED <<updateBulkAttempt, callpc, receivedOne, loops, recvVars>>

delayRetry ==
    /\ retryTimeout < MaxRetry
    /\ socketopen' = FALSE
    /\ updateBulkAttempt' = 0
    /\ waitingForBulk' = FALSE
    /\ LET st == clearValues(CurrentStore)
       IN /\ SetStore(st)
          /\ last' = Last("delayRetry", retryTimeout + 1, st.ev)
    /\ sock' = IF oscSocket # 0 THEN [sock EXCEPT ![oscSocket] = "closed"] ELSE sock
    /\ oscSocket' = 0
    /\ qserv' = IF oscQuery # 0 THEN [qserv EXCEPT ![oscQuery] = "stopped"] ELSE qserv
    /\ oscQuery' = 0
    /\ timers' = clearTimeout(timers, retryTimeout) \cup {retryTimeout + 1}
    /\ retryTimeout' = retryTimeout + 1
    /\ UNCHANGED <<callpc, receivedOne, loops, recvVars>>

\* the retry timer's callback: () => this.openSocket(), up to its first await
RetryTimerFires(h) ==
    /\ h \in timers
    /\ timers' = timers \ {h}
    /\ callpc' = [callpc EXCEPT ![h + 1] = "port"]
    /\ last' = Last("timer", h, <<>>)
    /\ UNCHANGED <<socketopen, oscSocket, oscQuery, retryTimeout, sock, receivedOne, qserv>>
    /\ UNCHANGED <<storeVars, bulkVars, recvVars>>

\* ------------------------------------------------------------ updateBulk
Bulk(a, w, l) == [a |-> a, w |-> w, l |-> l]
CurrentBulk == Bulk(updateBulkAttempt, waitingForBulk, loops)

SetBulk(b) ==
    /\ updateBulkAttempt' = b.a
    /\ waitingForBulk' = b.w
    /\ loops' = b.l

Started(l) == {j \in Tokens : l[j] # "idle"}

\* updateBulk keeping the token it finds instead of minting one
updateBulkKeepsToken(b) ==
    LET myAttempt == IF b.a # 0 THEN b.a ELSE Cardinality(Started(b.l)) + 1
    IN Bulk(myAttempt, TRUE, [b.l EXCEPT ![myAttempt] = "fetch"])

\* updateBulk() up to its first await: the flag, a fresh token ({} is a new
\* object), and the first getBulk() request issued by _updateBulk.
updateBulk(b) ==
    LET myAttempt == Cardinality(Started(b.l)) + 1
    IN Bulk(myAttempt, TRUE, [b.l EXCEPT ![myAttempt] = "fetch"])

\* isStillValid of the invocation holding token j
isStillValid(j) == updateBulkAttempt = j

\* what the bulk service can answer: up to two nodes
Nodes == {[full_path |-> p, value |-> v] :
            p \in {ParamPrefix \o n : n \in Names} \cup {<<"other", "a">>},
            v \in {Num(0), Num(1), Undefined}}
BulkResults == {<<>>} \cup {<<x>> : x \in Nodes} \cup {<<x, y>> : x \in Nodes, y \in Nodes}

Carried(nodes) ==
    {<<parseParamFromPath(nodes[k].full_path), nodes[k].value>> :
        k \in {m \in DOMAIN nodes : /\ nodes[m].value # Undefined
                                     /\ parseParamFromPath(nodes[m].full_path) # NoParam}}

\* _updateBulk without its isRequestStillValid() test
BulkFetchedUnchecked(j, nodes) ==
    /\ loops[j] = "fetch"
    /\ LET st == mergeNodes(CurrentStore, nodes)
       IN /\ SetStore(st)
          /\ last' = [Last("bulkResult", j, st.ev) EXCEPT !.carried = Carried(nodes)]
    /\ waitingForBulk' = FALSE
    /\ loops' = [loops EXCEPT ![j] = "done"]
    /\ UNCHANGED <<updateBulkAttempt, connVars, recvVars>>

\* getBulk() resolves with a list of nodes: _updateBulk merges it if the
\* token is still the current one, and updateBulk leaves its loop.
BulkFetched(j, nodes) ==
    /\ loops[j] = "fetch"
    /\ LET st == IF isStillValid(j) THEN mergeNodes(CurrentStore, nodes) ELSE CurrentStore
       IN /\ SetStore(st)
          /\ last' = [Last("bulkResult", j, st.ev) EXCEPT !.carried = Carried(nodes)]
    /\ waitingForBulk' = FALSE
    /\ loops' = [loops EXCEPT ![j] = "done"]
    /\ UNCHANGED <<updateBulkAttempt, connVars, recvVars>>

\* a failed fetch that takes the connection down
BulkFetchFailedFatal(j) ==
    /\ loops[j] = "fetch"
    /\ loops' = [loops EXCEPT ![j] = "wait"]
    /\ socketopen' = FALSE
    /\ last' = Last("bulkFailed", j, <<>>)
    /\ UNCHANGED <<oscSocket, oscQuery, retryTimeout, timers, callpc, sock, receivedOne,
                   qserv>>
    /\ UNCHANGED <<updateBulkAttempt, waitingForBulk, storeVars, recvVars>>

\* getBulk() resolves with null or rejects, or the 10 s timeout wins the
\* race: _updateBulk throws, updateBulk logs and starts its 100 ms wait.
BulkFetchFailed(j) ==
    /\ loops[j] = "fetch"
    /\ loops' = [loops EXCEPT ![j] = "wait"]
    /\ last' = Last("bulkFailed", j, <<>>)
    /\ UNCHANGED <<updateBulkAttempt, waitingForBulk, connVars, storeVars, recvVars>>

\* the loop going round without asking isStillValid()
BulkWaitedAlwaysRetries(j) ==
    /\ loops[j] = "wait"
    /\ loops' = [loops EXCEPT ![j] = "fetch"]
    /\ last' = Last("bulkWaited", j, <<>>)
    /\ UNCHANGED <<updateBulkAttempt, waitingForBulk, connVars, storeVars, recvVars>>

\* the 100 ms wait ends: the loop goes round if its token is still the
\* current one, and leaves otherwise.
BulkWaited(j) ==
    /\ loops[j] = "wait"
    /\ IF isStillValid(j)
       THEN /\ loops' = [loops EXCEPT ![j] = "fetch"]
            /\ UNCHANGED waitingForBulk
       ELSE /\ loops' = [loops EXCEPT ![j] = "done"]
            /\ waitingForBulk' = FALSE
    /\ last' = Last("bulkWaited", j, <<>>)
    /\ UNCHANGED <<updateBulkAttempt, connVars, storeVars, recvVars>>

\* ------------------------------------------------- the 'message' handler
\* a message the handler returns from at once: myAddresses.has(from) is false
MessageDropped(i, path) ==
    /\ last' = Received(i, "untrusted", path, <<>>)
    /\ UNCHANGED <<connVars, storeVars, bulkVars, recvVars>>

MessageAccepted(i, from, path, rawValue) ==
    LET first == ~receivedOne[i]
        b1 == IF first THEN updateBulk(CurrentBulk) ELSE CurrentBulk
        change == path = AvatarChange
        param == parseParamFromPath(path)
        st == IF path = <<>> THEN CurrentStore
              ELSE IF change THEN clearValues(CurrentStore)
              ELSE receivedParamValue(CurrentStore, param, rawValue, FALSE)
        b2 == IF change THEN updateBulk(b1) ELSE b1
    IN /\ recentlyRcvdOscCmds < MaxRecv
       /\ Cardinality(Started(loops)) + (IF first THEN 1 ELSE 0)
              + (IF change THEN 1 ELSE 0) <= MaxBulk
       /\ (param \in DOMAIN entries /\ rawValue # Undefined) => Len(hist[param]) < MaxHist
       /\ receivedOne' = [receivedOne EXCEPT ![i] = TRUE]
       /\ \E t1 \in Times : \E t2 \in Times :
             /\ lastReceiveTime <= t1 /\ t1 <= t2
             /\ lastPacket' = t1
             /\ lastReceiveTime' = t2
       /\ recentlyRcvdOscCmds' = recentlyRcvdOscCmds + 1
       /\ SetStore(st)
       /\ SetBulk(b2)
       /\ last' = [Received(i, from, path, st.ev) EXCEPT !.path = path, !.arg = rawValue]
       /\ UNCHANGED <<socketopen, oscSocket, oscQuery, retryTimeout, timers, callpc, sock,
                      qserv>>

\* the handler without its myAddresses.has(from) test
MessageNoFilter(i, trusted, path, rawValue) ==
    /\ sock[i] = "listening"
    /\ MessageAccepted(i, IF trusted THEN "trusted" ELSE "untrusted", path, rawValue)

\* trusted: what myAddresses.has(rinfo.address) answers
Message(i, trusted, path, rawValue) ==
    /\ sock[i] = "listening"
    /\ IF trusted THEN MessageAccepted(i, "trusted", path, rawValue)
       ELSE MessageDropped(i, path)

\* ------------------------------------------------------------------ send
\* send testing socketopen alone
sendWithoutSocketTest(paramName, value, sendAddr) ==
    /\ IF ~socketopen THEN last' = Last("send", 0, <<>>)
       ELSE IF sendAddr = NoPeer THEN last' = Sent(sendAddr, <<>>)
       ELSE last' = Sent(sendAddr, <<[sock |-> oscSocket, to |-> sendAddr,
                                      address |-> ParamPrefix \o paramName,
                                      value |-> value]>>)
    /\ UNCHANGED <<connVars, storeVars, bulkVars, recvVars>>

\* sendAddr is what vrchatOscqueryService.getOscAddress() returns to this call
send(paramName, value, sendAddr) ==
    /\ IF oscSocket = 0 \/ ~socketopen THEN last' = Last("send", 0, <<>>)
       ELSE IF sendAddr = NoPeer THEN last' = Sent(sendAddr, <<>>)
       ELSE last' = Sent(sendAddr, <<[sock |-> oscSocket, to |-> sendAddr,
                                      address |-> ParamPrefix \o paramName,
                                      value |-> value]>>)
    /\ UNCHANGED <<connVars, storeVars, bulkVars, recvVars>>

\* ----------------------------------------------------------- clearDeltas
clearDeltas ==
    /\ entries' = [n \in DOMAIN entries |-> clearDelta(entries[n])]
    /\ hist' = [n \in DOMAIN entries |-> <<entries[n].value>>]
    /\ last' = Last("clearDeltas", 0, <<>>)
    /\ UNCHANGED <<live, dropped, added, connVars, bulkVars, recvVars>>

\* --------------------------------------------- the constructor's interval
IntervalFires ==
    /\ recentlyRcvdOscCmds' = IF socketopen THEN 0 ELSE recentlyRcvdOscCmds
    /\ last' = Last("interval", 0, <<>>)
    /\ UNCHANGED <<connVars, storeVars, bulkVars, lastReceiveTime, lastPacket>>

\* ------------------------------------------------------- specifications
\* Three environments drive the same callbacks.  Each lets the parts of the
\* program its claims are about run in full and keeps the rest quiet.

\* datagrams from an untrusted sender
Untrusted == \E i \in Calls : Message(i, FALSE, AvatarChange, Num(1))

\* ConnNext: the connection.  Every await of a connect attempt can succeed
\* or fail, sockets report errors, the caller resets and sends at any
\* moment, the 15 s interval fires; no trusted sender is on the network.
ConnNext ==
    \/ \E i \in Calls : PortResolved(i)
    \/ \E i \in Calls : PortRejected(i)
    \/ \E i \in Calls : StartResolved(i)
    \/ \E i \in Calls : StartRejected(i)
    \/ \E i \in Calls : SocketReady(i)
    \/ \E i \in Calls : SocketError(i)
    \/ delayRetry
    \/ \E h \in Handles : RetryTimerFires(h)
    \/ Untrusted
    \/ \E n \in Names, v \in Numbers, a \in PeerAddrs \cup {NoPeer} : send(n, v, a)
    \/ IntervalFires

ConnSpec == Init /\ [][ConnNext]_vars

\* BulkNext: reconciliation.  Connect attempts succeed, listening sockets
\* report transient errors and the caller resets only an open connection;
\* trusted and untrusted senders write one
\* parameter and announce avatar changes; every bulk fetch can succeed, fail
\* or be overtaken.  (StoreNext has the other addresses and values.)
BulkPaths == {AvatarChange, ParamPrefix \o <<"a">>}
BulkNodes == {<<>>,
              <<[full_path |-> <<"other", "a">>, value |-> Num(1)],
                [full_path |-> ParamPrefix \o <<"a">>, value |-> Num(0)]>>}

BulkNext ==
    \/ \E i \in Calls : PortResolved(i)
    \/ \E i \in Calls : StartResolved(i)
    \/ \E i \in Calls : SocketReady(i)
    \/ \E i \in Calls : sock[i] = "listening" /\ SocketError(i)
    \/ socketopen /\ delayRetry
    \/ \E h \in Handles : RetryTimerFires(h)
    \/ Untrusted
    \/ \E i \in Calls, path \in BulkPaths : Message(i, TRUE, path, Num(1))
    \/ \E j \in Tokens, nodes \in BulkNodes : BulkFetched(j, nodes)
    \/ \E j \in Tokens : BulkFetchFailed(j)
    \/ \E j \in Tokens : BulkWaited(j)

BulkSpec == Init /\ [][BulkNext]_vars

\* StoreNext: the parameter store.  One connection that stays open; trusted
\* senders write every kind of value to both parameters, bulk results carry
\* up to two nodes, the caller clears the deltas.
StoreNext ==
    \/ \E i \in Calls : PortResolved(i)
    \/ \E i \in Calls : StartResolved(i)
    \/ \E i \in Calls : SocketReady(i)
    \/ \E i \in Calls, path \in Paths, rawValue \in RawValues :
          Message(i, TRUE, path, rawValue)
    \/ \E j \in Tokens, nodes \in BulkResults : BulkFetched(j, nodes)
    \/ \E j \in Tokens : BulkFetchFailed(j)
    \/ \E j \in Tokens : BulkWaited(j)
    \/ clearDeltas

StoreSpec == Init /\ [][StoreNext]_vars

\* ---------------------------------------------------------------- claims
EventKeys(ev) == {ev[k].key : k \in DOMAIN ev}

\* C1: a bulk merge leaves the cell of every name that a live update has
\* written since the last clear as it is, value and delta, and emits no
\* 'change' and no 'add' for that name.
C1_BulkKeepsLive ==
    [][last'.op = "bulkResult" =>
          \A n \in live : /\ n \in DOMAIN entries'
                          /\ entries'[n] = entries[n]
                          /\ n \notin EventKeys(last'.ev)]_vars

\* a merge ran with a node for a live name whose value differs from the cell's
C1_Witness ==
    /\ last.op = "bulkResult"
    /\ updateBulkAttempt = last.id
    /\ \E x \in last.carried : x[1] \in live /\ entries[x[1]].value # x[2]

\* C2: a bulk result that arrives when its token is no longer the current
\* one creates no cell, changes no cell and emits nothing.
C2_StaleBulkWritesNothing ==
    [][(last'.op = "bulkResult" /\ updateBulkAttempt # last'.id) =>
          (entries' = entries /\ last'.ev = <<>>)]_vars

\* a late result, after a reset, carried a value for a name without a cell
C2_Witness ==
    /\ last.op = "bulkResult"
    /\ updateBulkAttempt # last.id
    /\ retryTimeout > 0
    /\ \E x \in last.carried : x[1] \notin DOMAIN entries

\* C3: at most one retry timer is pending, and it is the one retryTimeout
\* holds: a timer that delayRetry replaced never fires.
C3_OneRetryTimer == Cardinality(timers) <= 1 /\ timers \subseteq {retryTimeout}

\* delayRetry ran again while the first timer was pending: timer 1 never fired
C3_Witness == retryTimeout = 2 /\ timers = {2} /\ callpc[2] = "idle"

\* C4: a message from an untrusted sender changes nothing and emits nothing.
C4_UntrustedChangesNothing ==
    [][(last'.op = "message" /\ last'.from = "untrusted") =>
          /\ UNCHANGED <<storeVars, bulkVars, connVars, recvVars>>
          /\ last'.ev = <<>>]_vars

\* an untrusted /avatar/change arrived on the held socket while the store had
\* a cell and no bulk attempt was waiting: handled, it would have cleared the
\* store and launched a bulk attempt
C4_Witness ==
    /\ last.op = "message" /\ last.from = "untrusted" /\ last.kind = "avatarChange"
    /\ last.id = oscSocket
    /\ DOMAIN entries # {}
    /\ ~waitingForBulk

RECURSIVE SumAbsDiffs(_)
\* the sum of |h[k+1] - h[k]| over the neighbours of h that are both numbers
SumAbsDiffs(h) ==
    IF Len(h) < 2 THEN 0
    ELSE (IF IsNumber(h[1]) /\ IsNumber(h[2]) THEN Abs(h[2].v - h[1].v) ELSE 0)
         + SumAbsDiffs(Tail(h))

\* C5: the delta of every cell is the sum of the absolute differences of the
\* consecutive numeric values it received since its deltas were last
\* cleared, and it is never negative.
C5_DeltaIsSumOfDiffs ==
    \A n \in DOMAIN entries :
        /\ entries[n].delta = SumAbsDiffs(hist[n])
        /\ entries[n].delta >= 0

\* a cell went 0, 1, 0 (delta 2) while the other name has a cell too
C5_Witness ==
    \E n \in DOMAIN entries :
        /\ hist[n] = <<Num(0), Num(1), Num(0)>>
        /\ entries[n].delta = 2
        /\ DOMAIN entries # {n}

\* C6: a step that emits 'clear' leaves the store empty, and a cell that a
\* step creates has delta 0 and the value of the update that created it.
C6_ClearThenFreshCell ==
    [][/\ Cleared(last'.ev) => DOMAIN entries' = {}
       /\ \A n \in DOMAIN entries' \ DOMAIN entries :
             /\ entries'[n].delta = 0
             /\ \E k \in DOMAIN last'.ev :
                   /\ last'.ev[k].ev = "add" /\ last'.ev[k].key = n
                   /\ last'.ev[k].new = entries'[n].value]_vars

\* a live update has just recreated a cell that had a delta > 0 when the
\* store was last cleared
C6_Witness ==
    /\ last.op = "message"
    /\ \E k \in DOMAIN last.ev :
          /\ last.ev[k].ev = "add"
          /\ last.ev[k].key \in dropped
          /\ entries[last.ev[k].key].delta = 0

\* C7: a trusted /avatar/change empties the store, emits 'clear' once and
\* nothing else, and leaves a new token current whose loop is fetching.
C7_AvatarChange ==
    [][(last'.op = "message" /\ last'.from = "trusted" /\ last'.kind = "avatarChange") =>
          /\ DOMAIN entries' = {}
          /\ Cardinality({k \in DOMAIN last'.ev : last'.ev[k].ev = "clear"}) = 1
          /\ \A k \in DOMAIN last'.ev : last'.ev[k].ev = "clear"
          /\ updateBulkAttempt' \in Tokens
          /\ updateBulkAttempt' # updateBulkAttempt
          /\ loops[updateBulkAttempt'] = "idle"
          /\ loops'[updateBulkAttempt'] = "fetch"
          /\ waitingForBulk']_vars

\* the avatar change cleared a store that had cells and overtook a running loop
C7_Witness ==
    /\ last.op = "message" /\ last.from = "trusted" /\ last.kind = "avatarChange"
    /\ ~last.first
    /\ dropped # {}
    /\ \E j \in Tokens : j # updateBulkAttempt /\ loops[j] \in {"fetch", "wait"}

\* C8: send transmits nothing without a held socket, with socketopen false
\* or without a peer address; otherwise it sends one message on the held
\* socket to the address discovery reported; it changes nothing else.
C8_Send ==
    [][last'.op = "send" =>
          /\ UNCHANGED <<storeVars, bulkVars, connVars, recvVars>>
          /\ IF oscSocket = 0 \/ ~socketopen \/ last'.peer = NoPeer
             THEN last'.sent = <<>>
             ELSE /\ Len(last'.sent) = 1
                  /\ last'.sent[1].sock = oscSocket
                  /\ last'.sent[1].to = last'.peer]_vars

\* a message went out to the second address while a retry timer was pending
C8_Witness ==
    /\ last.op = "send"
    /\ Len(last.sent) = 1
    /\ last.sent[1].to = "vrchat2"
    /\ timers # {}

\* C9: after a connect attempt failed, at the port allocation, at the start
\* of the discovery server or at the opening of the socket, nothing of the
\* attempt is held and a retry timer is pending.
C9_FailedConnectRetries ==
    last.op \in {"portRejected", "startRejected", "bindError"} =>
        (oscSocket = 0 /\ oscQuery = 0 /\ timers # {})

\* what can still take the connection to open without the caller: a connect
\* attempt going on, an opening socket reporting ready, a retry timer firing
ConnectProgress ==
    \/ \E i \in Calls : PortResolved(i) \/ StartResolved(i) \/ SocketReady(i)
    \/ \E h \in Handles : RetryTimerFires(h)

\* C10: the connection heals itself: while it is not open, a step that
\* leads to open is pending.
C10_SelfHealing == socketopen \/ ENABLED ConnectProgress

\* C11: a socket 'error' event changes nothing of the connection, of the
\* bulk reconciliation or of the store, schedules no retry and emits nothing.
C11_SocketErrorChangesNothing ==
    [][last'.op \in {"error", "bindError"} =>
          /\ UNCHANGED <<socketopen, oscSocket, oscQuery, retryTimeout, timers, callpc,
                         receivedOne, qserv>>
          /\ UNCHANGED <<bulkVars, storeVars, recvVars>>
          /\ last'.ev = <<>>]_vars

\* the held socket reported an error while the connection was open, the
\* store had a cell and a bulk attempt was running
C11_Witness ==
    /\ last.op = "error"
    /\ last.id = oscSocket
    /\ socketopen
    /\ DOMAIN entries # {}
    /\ waitingForBulk

\* the updateBulk invocations that have not finished: awaiting a fetch or
\* waiting out the retry delay
Unfinished == {j \in Tokens : loops[j] \in {"fetch", "wait"}}

\* C12: at most one bulk reconciliation loop is outstanding: no two
\* updateBulk invocations are unfinished at the same time.
C12_OneBulkLoop == Cardinality(Unfinished) <= 1

\* C13: right after delayRetry the connection is closed, nothing is held
\* (what was held is closed and stopped), the store is empty and 'clear'
\* was emitted once, no token is current, waitingForBulk is false and the
\* new timer is the only one pending; and a connect attempt begins only in
\* the callback of a pending timer, which a delayRetry scheduled.
C13_AfterDelayRetry ==
    [][/\ last'.op = "delayRetry" =>
             /\ ~socketopen'
             /\ oscSocket' = 0 /\ oscQuery' = 0
             /\ oscSocket # 0 => sock'[oscSocket] = "closed"
             /\ oscQuery # 0 => qserv'[oscQuery] = "stopped"
             /\ DOMAIN entries' = {}
             /\ last'.ev = <<ClearEvent>>
             /\ updateBulkAttempt' = 0 /\ ~waitingForBulk'
             /\ retryTimeout' # retryTimeout /\ timers' = {retryTimeout'}
             /\ callpc' = callpc
       /\ \A i \in Calls : (callpc[i] = "idle" /\ callpc'[i] # "idle") =>
             /\ last'.op = "timer"
             /\ last'.id \in timers
             /\ last'.id \in 1..retryTimeout]_vars

\* the second delayRetry closed an open connection, cleared a store whose
\* cell had a delta and overtook a bulk loop that had not finished
C13_Witness ==
    /\ last.op = "delayRetry"
    /\ last.id = 2
    /\ dropped # {}
    /\ Unfinished # {}
    /\ \E i \in Calls : sock[i] = "closed" /\ receivedOne[i]

\* the updateBulk invocations a step launches
Launched == Started(loops') \ Started(loops)

\* C14: on every socket the first trusted message launches exactly one bulk
\* attempt whatever its address, a later trusted message launches one if
\* its address is /avatar/change and none otherwise, and the first-message
\* flag of a newly created socket is false.
C14_FirstMessageLaunchesOne ==
    [][/\ (last'.op = "message" /\ last'.from = "trusted") =>
             Cardinality(Launched) =
                 (IF last'.first \/ last'.kind = "avatarChange" THEN 1 ELSE 0)
       /\ last'.op = "startResolved" => ~receivedOne'[last'.id]]_vars

\* C15: a bulk loop issues a new fetch only when it is launched or when its
\* retry wait ends while its token is current; a failed fetch is followed
\* by the retry wait; when the wait ends with the token current the loop
\* fetches again, and otherwise it ends; an ended loop stays ended, and a
\* token that was replaced or invalidated never becomes current again.
C15_RetryOnlyWhileCurrent ==
    [][\A j \in Tokens :
          /\ (loops[j] # "fetch" /\ loops'[j] = "fetch") =>
                \/ loops[j] = "idle" /\ updateBulkAttempt' >= j
                \/ loops[j] = "wait" /\ updateBulkAttempt = j
          /\ (last'.op = "bulkFailed" /\ last'.id = j) =>
                loops[j] = "fetch" /\ loops'[j] = "wait"
          /\ (last'.op = "bulkWaited" /\ last'.id = j) =>
                /\ loops[j] = "wait"
                /\ loops'[j] = IF updateBulkAttempt = j THEN "fetch" ELSE "done"
          /\ (last'.op = "bulkResult" /\ last'.id = j) => loops'[j] = "done"
          /\ loops[j] = "done" => loops'[j] = "done"
          /\ (loops[j] # "idle" /\ updateBulkAttempt # j) => updateBulkAttempt' # j]_vars

\* a loop whose fetch failed found its token replaced when its wait ended
\* and ended, while the loop of the current token was waiting to retry after
\* a failure of its own
C15_Witness ==
    /\ last.op = "bulkWaited"
    /\ loops[last.id] = "done"
    /\ updateBulkAttempt \in Tokens \ {last.id}
    /\ loops[updateBulkAttempt] = "wait"

\* C16: a bulk fetch that fails, and the retry wait after it, change nothing
\* of the connection or of the store, schedule no timer and emit nothing;
\* and a trusted parameter message that carries a value while a bulk loop
\* has not finished is applied: the cell of its name holds its value.
C16_BulkFailureNotFatal ==
    [][/\ last'.op \in {"bulkFailed", "bulkWaited"} =>
             /\ UNCHANGED <<connVars, storeVars, recvVars>>
             /\ last'.ev = <<>>
       /\ (/\ last'.op = "message" /\ last'.from = "trusted" /\ last'.kind = "param"
           /\ last'.arg # Undefined
           /\ Unfinished # {}) =>
             LET param == parseParamFromPath(last'.path)
             IN /\ param \in DOMAIN entries'
                /\ entries'[param].value = last'.arg
                /\ \E k \in DOMAIN last'.ev :
                      last'.ev[k] = ChangeEvent(param,
                                                IF param \in DOMAIN entries
                                                THEN entries[param].value ELSE Undefined,
                                                last'.arg)]_vars

\* a live parameter message was applied to an open connection while a loop
\* whose fetch had failed was waiting to retry
C16_Witness ==
    /\ last.op = "message" /\ last.from = "trusted" /\ last.kind = "param"
    /\ ~last.first
    /\ socketopen /\ oscSocket = last.id
    /\ updateBulkAttempt \in Tokens /\ loops[updateBulkAttempt] = "wait"
    /\ parseParamFromPath(last.path) \in DOMAIN entries

\* C17: since the last 'clear' (or since the start) 'add' was emitted once
\* for every name that has a cell and never for a name without one.
C17_NoDuplicateAdd ==
    \A n \in Names : added[n] = IF n \in DOMAIN entries THEN 1 ELSE 0

\* the result of the attempt an avatar change launched had two values for
\* one name and created its cell, announced once, next to a cell that a live
\* update had created
C17_Witness ==
    /\ last.op = "bulkResult"
    /\ last.id = updateBulkAttempt /\ last.id >= 2
    /\ \E x \in last.carried, y \in last.carried :
          /\ x[1] = y[1] /\ x[2] # y[2]
          /\ x[1] \in EventKeys(last.ev)
          /\ added[x[1]] = 1
          /\ live \ {x[1]} # {}

\* the names a callback received an update for: the parameter of a trusted
\* message that carries a value, the parameters a bulk result carries values
\* for when its token is the current one
Updates(l, token) ==
    IF l.op = "message" /\ l.from = "trusted" /\ l.kind = "param" /\ l.arg # Undefined
    THEN {parseParamFromPath(l.path)}
    ELSE IF l.op = "bulkResult" /\ l.id = token THEN {x[1] : x \in l.carried}
    ELSE {}

\* C18: the names that have a cell are the names an update was received
\* for since the last clear: every callback leaves the key set of the store
\* as what it was (nothing, if it cleared) plus the names it received an
\* update for; a message whose address is neither /avatar/change nor a
\* parameter's adds no name.
C18_CellIffUpdate ==
    [][/\ DOMAIN entries' =
             (IF Cleared(last'.ev) THEN {} ELSE DOMAIN entries)
                 \cup Updates(last', updateBulkAttempt)
       /\ (last'.op = "message" /\ last'.kind \in {"other", "noPath"}) =>
             DOMAIN entries' = DOMAIN entries]_vars

\* a trusted message for a parameter came without a value while the other
\* parameter had a cell: no cell was created for it
C18_Witness ==
    /\ last.op = "message" /\ last.from = "trusted" /\ last.kind = "param"
    /\ last.arg = Undefined
    /\ parseParamFromPath(last.path) \notin DOMAIN entries
    /\ DOMAIN entries # {}

\* C19: waitingForBulk is true whenever the bulk attempt that holds the
\* current token has not finished.
C19_WaitingWhileCurrentRuns ==
    (updateBulkAttempt \in Tokens /\ updateBulkAttempt \in Unfinished) => waitingForBulk

\* C20: every socket that is open or opening is the held one, every
\* discovery server that is started or starting is the held one, and
\* socketopen is true only if the held socket reported ready.
C20_OneLiveSocket ==
    /\ \A i \in Calls : sock[i] \in {"opening", "listening"} => oscSocket = i
    /\ \A i \in Calls : qserv[i] \in {"starting", "started"} => oscQuery = i
    /\ socketopen => (oscSocket # 0 /\ sock[oscSocket] = "listening")

====
